---- MODULE Spec2Model ----
(***************************************************************************)
(* logo_renamer: the pixel-analysis and geometric-transform engine         *)
(* (src/src/commands/manipulate): background estimation, trim, extend,     *)
(* the operation-chain executor and the operation-string parser.           *)
(*                                                                         *)
(* An image is a record [mode, size, px]: px maps every (x, y) of the      *)
(* grid to the pixel in the image's native mode: <<l>> for "L",            *)
(* <<r, g, b>> for "RGB", <<r, g, b, a>> for "RGBA".                       *)
(***************************************************************************)
EXTENDS Integers, Sequences, FiniteSets, TLC

VARIABLES
    pc,         \* the position of the run
    t_img,      \* trim: the image given to trim_image_obj
    t_margin,   \* trim: the margin
    t_ret,      \* trim: what the call returned
    t_again,    \* trim: what trim_image_obj returned on its own result
    e_img,      \* extend: the image given to extend_image_obj
    e_ret,      \* extend: the image it returned
    ops_str,    \* manipulate: the operation string, a sequence of characters
    parsed,     \* manipulate: what parse_operations returned
    replace,    \* manipulate: --replace
    skip_same,  \* manipulate: --skip-same
    disk,       \* the files: path -> image, Corrupt or NoFile
    original_img,   \* _process_single_file: the image as loaded
    current_img,    \* _process_single_file: the image after the steps so far
    modified,       \* _process_single_file: the modified flag
    op_index,       \* _process_single_file: the operations applied so far
    status,         \* _process_single_file: the status it returned
    b_cmd,          \* batch: the command that runs
    b_found,        \* batch: the files collected, each by its kind
    b_max,          \* batch: rename's --max-images
    b_files,        \* batch: files_to_process when the loop starts
    b_log,          \* batch: the files attempted so far, with their outcome
    r_fs,           \* rename: the directory, each name with the file it holds
    r_queue,        \* rename: files_to_process
    r_dry,          \* rename: --dry-run
    r_now,          \* rename: the clock, in seconds
    r_log,          \* rename: one entry for every file processed
    c_cmd,          \* collection: the command that runs
    c_args,         \* collection: the paths given on the command line
    c_i,            \* collection: the paths looked at so far
    c_files         \* collection: files_to_process

trim_vars == <<t_img, t_margin, t_ret, t_again>>

extend_vars == <<e_img, e_ret>>

parse_vars == <<ops_str, parsed>>

file_vars ==
    <<replace, skip_same, disk, original_img, current_img, modified, op_index, status>>

batch_vars == <<b_cmd, b_found, b_max, b_files, b_log>>

rename_vars == <<r_fs, r_queue, r_dry, r_now, r_log>>

collect_vars == <<c_cmd, c_args, c_i, c_files>>

vars ==
    <<pc, trim_vars, extend_vars, parse_vars, file_vars, batch_vars, rename_vars,
      collect_vars>>

\* Python's None.
None == "None"

\* The value of a result no call has produced yet.
NoCall == [called |-> FALSE]

---------------------------------------------------------------------------
(* Bounds of the model. *)

\* Largest margin drawn for a trim call.
MaxMargin == 1

\* Longest operation string given to parse_operations.
MaxStrLen == 4

\* Most operations in the chain of a manipulate run.
MaxOps == 2

\* The number of files a batch collects.
MaxFiles == 3

\* Largest width and height of an input image.
MaxW == 3

MaxH == 3

\* Latest second of the clock that stamps a renamed file.
MaxStamp == 1

\* Most paths given to a command.
MaxArgs == 2


---------------------------------------------------------------------------
(* Integer helpers. *)

max(a, b) == IF a >= b THEN a ELSE b

min(a, b) == IF a <= b THEN a ELSE b

abs(a) == IF a >= 0 THEN a ELSE 0 - a

SetMin(S) == CHOOSE x \in S : \A y \in S : x <= y

SetMax(S) == CHOOSE x \in S : \A y \in S : x >= y

---------------------------------------------------------------------------
(* The image library the code calls (PIL.Image, PIL.ImageChops).           *)

Width(img) == img.size[1]

Height(img) == img.size[2]

Grid(w, h) == (0 .. w - 1) \X (0 .. h - 1)

\* Image.new(mode, size, color)
new(mode, size, color) ==
    [mode |-> mode, size |-> size, px |-> [p \in Grid(size[1], size[2]) |-> color]]

\* One pixel converted between modes, as Image.convert does it: a mode
\* without alpha becomes opaque, "L" and the grey of "LA" are replicated on
\* the three colour channels, "LA" keeps its alpha, and RGBA -> RGB drops
\* the alpha channel.
convert_pixel(from, to, c) ==
    IF from = to THEN c
    ELSE IF to = "RGBA" THEN
        IF from = "RGB" THEN <<c[1], c[2], c[3], 255>>
        ELSE IF from = "LA" THEN <<c[1], c[1], c[1], c[2]>>
        ELSE <<c[1], c[1], c[1], 255>>
    ELSE IF from = "RGBA" THEN <<c[1], c[2], c[3]>>
    ELSE <<c[1], c[1], c[1]>>

\* img.convert(mode)
convert(img, mode) ==
    [mode |-> mode, size |-> img.size,
     px |-> [p \in DOMAIN img.px |-> convert_pixel(img.mode, mode, img.px[p])]]

\* img.getpixel((x, y))
getpixel(img, x, y) == img.px[<<x, y>>]

\* ImageChops.difference(a, b): the absolute difference, channel by channel.
difference(a, b) ==
    [mode |-> a.mode, size |-> a.size,
     px |-> [p \in DOMAIN a.px |->
                [k \in DOMAIN a.px[p] |-> abs(a.px[p][k] - b.px[p][k])]]]

\* The pixels img.getbbox() takes as non-zero: for a mode with an alpha
\* channel only the alpha channel is looked at, for the others every channel.
NonZero(img) ==
    IF img.mode = "RGBA"
    THEN {p \in DOMAIN img.px : img.px[p][4] # 0}
    ELSE IF img.mode = "LA"
    THEN {p \in DOMAIN img.px : img.px[p][2] # 0}
    ELSE {p \in DOMAIN img.px : \E k \in DOMAIN img.px[p] : img.px[p][k] # 0}

\* getbbox's None: the empty tuple, so that a box compares with it.
NoBox == <<>>

BoxOf(S) ==
    IF S = {} THEN NoBox
    ELSE <<SetMin({p[1] : p \in S}), SetMin({p[2] : p \in S}),
           SetMax({p[1] : p \in S}) + 1, SetMax({p[2] : p \in S}) + 1>>

\* img.getbbox(): (left, upper, right, lower) of the non-zero region, or None.
getbbox(img) == BoxOf(NonZero(img))

\* The all-zero pixel of a mode.
zero_pixel(mode) ==
    IF mode = "RGBA" THEN <<0, 0, 0, 0>>
    ELSE IF mode = "RGB" THEN <<0, 0, 0>>
    ELSE IF mode = "LA" THEN <<0, 0>>
    ELSE <<0>>

\* img.crop((left, upper, right, lower)): a new image in the same mode; the
\* part of the box that lies outside the image is filled with zero pixels.
crop(img, box) ==
    [mode |-> img.mode, size |-> <<box[3] - box[1], box[4] - box[2]>>,
     px |-> [p \in Grid(box[3] - box[1], box[4] - box[2]) |->
                LET q == <<box[1] + p[1], box[2] + p[2]>>
                IN  IF q \in DOMAIN img.px THEN img.px[q] ELSE zero_pixel(img.mode)]]

\* The blend of Image.paste with a mask: (d * (255 - a) + s * a) / 255,
\* rounded the way the library rounds it.
blend(d, s, a) ==
    LET tmp == d * (255 - a) + s * a + 128
    IN  ((tmp \div 256) + tmp) \div 256

\* dst.paste(src, (ox, oy)) and, with masked, dst.paste(src, (ox, oy), src):
\* src is converted to dst's mode; without a mask it replaces the region,
\* with src as the mask every channel is blended by src's alpha.
paste(dst, src, ox, oy, masked) ==
    [mode |-> dst.mode, size |-> dst.size,
     px |-> [p \in DOMAIN dst.px |->
                LET q == <<p[1] - ox, p[2] - oy>>
                IN  IF q \notin DOMAIN src.px THEN dst.px[p]
                    ELSE LET c == convert_pixel(src.mode, dst.mode, src.px[q])
                         IN  IF masked
                             THEN [k \in DOMAIN c |-> blend(dst.px[p][k], c[k], src.px[q][4])]
                             ELSE c]]

---------------------------------------------------------------------------
(* collections.Counter *)

\* Counter(items).most_common(1)[0]: the item with the highest count, the one
\* inserted first among equals, with its count.
CountOf(items, c) == Cardinality({i \in DOMAIN items : items[i] = c})

most_common(items) ==
    LET cnt == [c \in {items[i] : i \in DOMAIN items} |-> CountOf(items, c)]
        top == SetMax({cnt[c] : c \in DOMAIN cnt})
        first == SetMin({i \in DOMAIN items : cnt[items[i]] = top})
    IN  <<items[first], top>>

---------------------------------------------------------------------------
(* src/src/commands/manipulate/image_ops.py *)

\* What a call returns when it raises.
Raised(e) == [raised |-> TRUE, error |-> e]

\* The coordinates get_edge_background_color samples, in its order: the top
\* and bottom pixel of every column, then the left and right pixel of every
\* row but the first and the last.
edge_coords(width, height) ==
    LET rows == IF height > 2 THEN height - 2 ELSE 0
    IN  [i \in 1 .. 2 * width + 2 * rows |->
            IF i <= 2 * width
            THEN <<(i - 1) \div 2, IF i % 2 = 1 THEN 0 ELSE height - 1>>
            ELSE LET j == i - 2 * width
                 IN  <<IF j % 2 = 1 THEN 0 ELSE width - 1, (j + 1) \div 2>>]

\* The pixels get_edge_background_color samples, in its order.
edge_pixels(calc_img) ==
    LET at == edge_coords(Width(calc_img), Height(calc_img))
    IN  [i \in DOMAIN at |-> getpixel(calc_img, at[i][1], at[i][2])]

\* get_edge_background_color with the top left pixel taken as the background.
get_edge_background_color_top_left(img) ==
    getpixel(convert(img, "RGBA"), 0, 0)

\* get_edge_background_color with a tie going to the colour met last.
get_edge_background_color_last_tied(img) ==
    LET items == edge_pixels(convert(img, "RGBA"))
        top == SetMax({CountOf(items, items[i]) : i \in DOMAIN items})
    IN  items[SetMax({i \in DOMAIN items : CountOf(items, items[i]) = top})]

\* get_edge_background_color(img): the most frequent colour of the border.
get_edge_background_color(img) ==
    most_common(edge_pixels(convert(img, "RGBA")))[1]

\* get_corner_background_color with the threshold at 2 corners instead of 3.
get_corner_background_color_two(img) ==
    LET calc_img == convert(img, "RGBA")
        corners == <<getpixel(calc_img, 0, 0),
                     getpixel(calc_img, Width(img) - 1, 0),
                     getpixel(calc_img, 0, Height(img) - 1),
                     getpixel(calc_img, Width(img) - 1, Height(img) - 1)>>
        mc == most_common(corners)
    IN  IF mc[2] < 2 THEN Raised("ImageValidationError")
        ELSE [raised |-> FALSE, color |-> mc[1]]

\* get_corner_background_color(img): the colour of at least 3 of the 4
\* corners, else ImageValidationError.
get_corner_background_color(img) ==
    LET width == Width(img)
        height == Height(img)
        calc_img == convert(img, "RGBA")
        corners == <<getpixel(calc_img, 0, 0),
                     getpixel(calc_img, width - 1, 0),
                     getpixel(calc_img, 0, height - 1),
                     getpixel(calc_img, width - 1, height - 1)>>
        mc == most_common(corners)
    IN  IF mc[2] < 3 THEN Raised("ImageValidationError")
        ELSE [raised |-> FALSE, color |-> mc[1]]

\* The two getbbox passes of trim_image_obj: on the RGBA difference, and if
\* that is empty on the difference converted to RGB.
trim_bbox(calc_img, bg_color) ==
    LET bg == new("RGBA", calc_img.size, bg_color)
        diff == difference(calc_img, bg)
        bbox == getbbox(diff)
    IN  IF bbox = NoBox THEN getbbox(convert(diff, "RGB")) ELSE bbox

\* expand_box with the margin added on the left and upper sides only.
expand_box_left_upper(bbox, margin, width, height) ==
    <<max(0, bbox[1] - margin), max(0, bbox[2] - margin),
      min(width, bbox[3]), min(height, bbox[4])>>

\* expand_box without the clamp to the image's width and height.
expand_box_unclamped(bbox, margin, width, height) ==
    <<max(0, bbox[1] - margin), max(0, bbox[2] - margin),
      bbox[3] + margin, bbox[4] + margin>>

\* The margin-expanded box, clamped to the image.
expand_box(bbox, margin, width, height) ==
    <<max(0, bbox[1] - margin), max(0, bbox[2] - margin),
      min(width, bbox[3] + margin), min(height, bbox[4] + margin)>>

\* trim_image_obj without the test for a box that is the whole image.
trim_image_obj_always_crop(img, margin) ==
    LET calc_img == convert(img, "RGBA")
        bg == get_corner_background_color(calc_img)
    IN  IF bg.raised THEN bg
        ELSE LET bbox == trim_bbox(calc_img, bg.color)
             IN  IF bbox = NoBox
                 THEN [raised |-> FALSE, img |-> img, modified |-> FALSE]
                 ELSE [raised |-> FALSE, modified |-> TRUE,
                       img |-> crop(img, expand_box(bbox, margin, Width(img), Height(img)))]

\* trim_image_obj with the crop taken from the RGBA copy.
trim_image_obj_crops_copy(img, margin) ==
    LET calc_img == convert(img, "RGBA")
        width == Width(calc_img)
        height == Height(calc_img)
        bg == get_corner_background_color(calc_img)
    IN  IF bg.raised THEN bg
        ELSE LET bbox == trim_bbox(calc_img, bg.color)
             IN  IF bbox = NoBox
                 THEN [raised |-> FALSE, img |-> img, modified |-> FALSE]
                 ELSE LET box == expand_box(bbox, margin, width, height)
                      IN  IF box = <<0, 0, width, height>>
                          THEN [raised |-> FALSE, img |-> img, modified |-> FALSE]
                          ELSE [raised |-> FALSE, img |-> crop(calc_img, box),
                                modified |-> TRUE]

\* trim_image_obj(img, margin) -> (new_image, was_modified)
trim_image_obj(img, margin) ==
    LET calc_img == convert(img, "RGBA")
        width == Width(calc_img)
        height == Height(calc_img)
        bg == get_corner_background_color(calc_img)
    IN  IF bg.raised THEN bg
        ELSE LET bbox == trim_bbox(calc_img, bg.color)
             IN  IF bbox = NoBox
                 THEN [raised |-> FALSE, img |-> img, modified |-> FALSE]
                 ELSE LET box == expand_box(bbox, margin, width, height)
                      IN  IF box = <<0, 0, width, height>>
                          THEN [raised |-> FALSE, img |-> img, modified |-> FALSE]
                          ELSE [raised |-> FALSE, img |-> crop(img, box),
                                modified |-> TRUE]

\* What crop and save do with a box: an image of the box's size is written
\* when the box has pixels; an empty or inverted box makes crop or save raise.
has_pixels(box) == box[1] < box[3] /\ box[2] < box[4]

\* src/src/commands/trim/cli.py, trim_image(image_path, margin, replace), up
\* to the crop: the background is the top left pixel.  Returns the box and
\* the crop to save, or saved = FALSE when the path is returned as it is.
trim_cli_trim_image(img, margin) ==
    LET calc_img == convert(img, "RGBA")
        bg_color == getpixel(calc_img, 0, 0)
        bbox == trim_bbox(calc_img, bg_color)
    IN  IF bbox = NoBox THEN [raised |-> FALSE, saved |-> FALSE]
        ELSE LET box == expand_box(bbox, margin, Width(img), Height(img))
             IN  IF has_pixels(box)
                 THEN [raised |-> FALSE, saved |-> TRUE, box |-> box, img |-> crop(img, box)]
                 ELSE [raised |-> TRUE, error |-> "ValueError", box |-> box]

\* src/src/commands/trim/image_ops.py, trim_image(image_path, margin,
\* replace), up to the crop: the background is the colour of at least 3 of
\* the 4 corners.
trim_ops_trim_image(img, margin) ==
    LET calc_img == convert(img, "RGBA")
        width == Width(calc_img)
        height == Height(calc_img)
        corners == <<getpixel(calc_img, 0, 0),
                     getpixel(calc_img, width - 1, 0),
                     getpixel(calc_img, 0, height - 1),
                     getpixel(calc_img, width - 1, height - 1)>>
        mc == most_common(corners)
    IN  IF mc[2] < 3 THEN Raised("ImageValidationError")
        ELSE LET bbox == trim_bbox(calc_img, mc[1])
             IN  IF bbox = NoBox THEN [raised |-> FALSE, saved |-> FALSE]
                 ELSE LET box == expand_box(bbox, margin, width, height)
                      IN  IF box = <<0, 0, width, height>>
                          THEN [raised |-> FALSE, saved |-> FALSE]
                          ELSE IF has_pixels(box)
                          THEN [raised |-> FALSE, saved |-> TRUE, box |-> box,
                                img |-> crop(img, box)]
                          ELSE [raised |-> TRUE, error |-> "ValueError", box |-> box]

\* extend_image_obj with the canvas filled in the colour of the top-left
\* pixel instead of the border's most frequent colour.
extend_image_obj_top_left(img) ==
    LET width == Width(img)
        height == Height(img)
        bg_color == getpixel(convert(img, "RGBA"), 0, 0)
        new_img == new("RGBA", <<width * 3, height * 3>>, bg_color)
        pasted == paste(new_img, img, width, height, img.mode = "RGBA")
    IN  IF img.mode = "RGB" THEN convert(pasted, "RGB") ELSE pasted

\* extend_image_obj with the paste offset's coordinates swapped.
extend_image_obj_swapped(img) ==
    LET width == Width(img)
        height == Height(img)
        new_img == new("RGBA", <<width * 3, height * 3>>, get_edge_background_color(img))
        pasted == paste(new_img, img, height, width, img.mode = "RGBA")
    IN  IF img.mode = "RGB" THEN convert(pasted, "RGB") ELSE pasted

\* extend_image_obj without the conversion back to RGB.
extend_image_obj_stays_rgba(img) ==
    LET width == Width(img)
        height == Height(img)
        new_img == new("RGBA", <<width * 3, height * 3>>, get_edge_background_color(img))
    IN  paste(new_img, img, width, height, img.mode = "RGBA")

\* extend_image_obj with the image pasted at the top left corner.
extend_image_obj_no_offset(img) ==
    LET bg_color == get_edge_background_color(img)
        width == Width(img)
        height == Height(img)
        new_img == new("RGBA", <<width * 3, height * 3>>, bg_color)
        pasted == paste(new_img, img, 0, 0, img.mode = "RGBA")
    IN  IF img.mode = "RGB" THEN convert(pasted, "RGB") ELSE pasted

\* extend_image_obj(img) -> new_image
extend_image_obj(img) ==
    LET bg_color == get_edge_background_color(img)
        width == Width(img)
        height == Height(img)
        new_img == new("RGBA", <<width * 3, height * 3>>, bg_color)
        pasted == paste(new_img, img, width, height, img.mode = "RGBA")
    IN  IF img.mode = "RGB" THEN convert(pasted, "RGB") ELSE pasted

---------------------------------------------------------------------------
(* src/src/commands/manipulate/cli.py: parse_operations.  A string is a    *)
(* sequence of one-character strings.                                      *)

\* The margin of a bare 't'.
DefaultMargin == 20

\* s.split(","): the parts between the commas, at least one.
RECURSIVE split(_)
split(s) ==
    IF \A k \in DOMAIN s : s[k] # "," THEN <<s>>
    ELSE LET k == SetMin({j \in DOMAIN s : s[j] = ","})
         IN  <<SubSeq(s, 1, k - 1)>> \o split(SubSeq(s, k + 1, Len(s)))

\* s.strip(): without the whitespace at both ends.
strip(s) ==
    LET inked == {k \in DOMAIN s : s[k] # " "}
    IN  IF inked = {} THEN <<>> ELSE SubSeq(s, SetMin(inked), SetMax(inked))

\* s.lower() left out.
lower_missing(s) == s

\* s.lower()
lower(s) ==
    [k \in DOMAIN s |-> IF s[k] = "E" THEN "e" ELSE IF s[k] = "T" THEN "t" ELSE s[k]]

Digits == {"0", "1", "2", "3", "4", "5", "6", "7", "8", "9"}

DigitValue(c) ==
    CASE c = "0" -> 0 [] c = "1" -> 1 [] c = "2" -> 2 [] c = "3" -> 3 [] c = "4" -> 4
      [] c = "5" -> 5 [] c = "6" -> 6 [] c = "7" -> 7 [] c = "8" -> 8 [] c = "9" -> 9

RECURSIVE decimal(_)
decimal(s) ==
    IF s = <<>> THEN 0
    ELSE 10 * decimal(SubSeq(s, 1, Len(s) - 1)) + DigitValue(s[Len(s)])

\* int(text): whitespace around the number and a sign before it are
\* accepted; anything else but digits raises ValueError.
int(text) ==
    LET t == strip(text)
        signed == t # <<>> /\ t[1] \in {"-", "+"}
        body == IF signed THEN Tail(t) ELSE t
    IN  IF body = <<>> \/ \E k \in DOMAIN body : body[k] \notin Digits
        THEN Raised("ValueError")
        ELSE [raised |-> FALSE,
              value |-> IF signed /\ t[1] = "-" THEN 0 - decimal(body) ELSE decimal(body)]

\* The loop of parse_operations over the parts still to read.
RECURSIVE parse_parts(_, _)
parse_parts(parts, ops) ==
    IF parts = <<>> THEN [raised |-> FALSE, ops |-> ops]
    ELSE LET part == lower(strip(Head(parts)))
         IN  IF part = <<>> THEN parse_parts(Tail(parts), ops)
             ELSE IF part = <<"e">>
             THEN parse_parts(Tail(parts), Append(ops, <<"e", None>>))
             ELSE IF part[1] = "t"
             THEN LET margin == IF Len(part) > 1 THEN int(Tail(part))
                                ELSE [raised |-> FALSE, value |-> DefaultMargin]
                  IN  IF margin.raised
                      THEN [raised |-> TRUE, error |-> "ValueError",
                            message |-> <<"Invalid trim margin: ", Tail(part)>>]
                      ELSE parse_parts(Tail(parts), Append(ops, <<"t", margin.value>>))
             ELSE [raised |-> TRUE, error |-> "ValueError",
                   message |-> <<"Unknown operation: ", part>>]

\* parse_operations(ops_str) -> list of (op, parameter)
parse_operations(s) == parse_parts(split(s), <<>>)

---------------------------------------------------------------------------
(* Input images. *)

\* The pixel values trim's inputs are drawn from: white, blue and black for
\* RGB; opaque white, opaque blue and half-transparent red for RGBA.
TrimPalette(mode) ==
    IF mode = "RGB" THEN {<<255, 255, 255>>, <<0, 0, 255>>, <<0, 0, 0>>}
    ELSE {<<255, 255, 255, 255>>, <<0, 0, 255, 255>>, <<255, 0, 0, 128>>}

\* The pixel values extend's inputs are drawn from: white and blue for RGB;
\* opaque white, opaque blue, half-transparent red and fully transparent
\* black for RGBA; white and black for L; opaque white and fully transparent
\* black for LA.
ExtendPalette(mode) ==
    IF mode = "RGB" THEN {<<255, 255, 255>>, <<0, 0, 255>>}
    ELSE IF mode = "RGBA"
    THEN {<<255, 255, 255, 255>>, <<0, 0, 255, 255>>, <<255, 0, 0, 128>>, <<0, 0, 0, 0>>}
    ELSE IF mode = "LA" THEN {<<255, 255>>, <<0, 0>>}
    ELSE {<<255>>, <<0>>}

\* Image.new(mode, size, base) followed by putpixel(p, g[p]) for p in S, the
\* way the repository's tests build their images.
Drawn(mode, w, h, base, g) ==
    [mode |-> mode, size |-> <<w, h>>,
     px |-> [p \in Grid(w, h) |-> IF p \in DOMAIN g THEN g[p] ELSE base]]

\* The images of one mode and size drawn in the colours `pal` with a number
\* of puts in `puts`.
ImagesOf(mode, w, h, pal, puts) ==
    UNION { UNION { {Drawn(mode, w, h, base, g) : g \in [S -> pal \ {base}]}
                    : S \in {T \in SUBSET Grid(w, h) : Cardinality(T) \in puts} }
            : base \in pal }

TrimImages ==
    UNION { ImagesOf(mode, w, h, TrimPalette(mode), {0, 1, 2})
            : mode \in {"RGB", "RGBA"}, w \in 1 .. MaxW, h \in 1 .. MaxH }

ExtendImages ==
    UNION { ImagesOf(mode, w, h, ExtendPalette(mode), {0, 1, 2})
            : mode \in {"RGB", "RGBA", "L", "LA"}, w \in 1 .. MaxW, h \in 1 .. MaxH }

\* The images of the files manipulate is run on: opaque, white and blue;
\* 3x3 RGBA and 2x1 RGB images with at most one pixel put, 3x2 RGB images
\* with two pixels put and a white top left pixel, and 3x3 RGB images with
\* at most the centre pixel put.
ChainImages ==
    ImagesOf("RGBA", 3, 3, {<<255, 255, 255, 255>>, <<0, 0, 255, 255>>}, {0, 1})
    \cup ImagesOf("RGB", 2, 1, {<<255, 255, 255>>, <<0, 0, 255>>}, {0, 1})
    \cup {img \in ImagesOf("RGB", 3, 2, {<<255, 255, 255>>, <<0, 0, 255>>}, {2}) :
             getpixel(img, 0, 0) = <<255, 255, 255>>}
    \cup {img \in ImagesOf("RGB", 3, 3, {<<255, 255, 255>>, <<0, 0, 255>>}, {0, 1}) :
             \A p \in Grid(3, 3) : p # <<1, 1>> => getpixel(img, p[1], p[2]) = getpixel(img, 0, 0)}

---------------------------------------------------------------------------
(* Input strings. *)

Alphabet == {"e", "t", "T", "4", "8", ",", " ", "-", "x"}

\* Every string over the alphabet of at most n characters.
Strings(n) == UNION { [1 .. k -> Alphabet] : k \in 0 .. n }

RECURSIVE Join(_)
Join(tokens) ==
    IF tokens = <<>> THEN <<>>
    ELSE IF Len(tokens) = 1 THEN tokens[1]
    ELSE tokens[1] \o <<",">> \o Join(Tail(tokens))

\* The operation strings manipulate is run with: at most MaxOps of the
\* tokens e, t0 and t1, and one string that does not parse.
ChainTokens == {<<"e">>, <<"t", "0">>, <<"t", "1">>}

ChainStrings ==
    {Join(ts) : ts \in UNION { [1 .. k -> ChainTokens] : k \in 0 .. MaxOps }} \cup {<<"x">>}

---------------------------------------------------------------------------
(* The values of the variables a specification does not use. *)

TrimIdle ==
    /\ t_img = NoCall
    /\ t_margin = 0
    /\ t_ret = NoCall
    /\ t_again = NoCall

ExtendIdle ==
    /\ e_img = NoCall
    /\ e_ret = NoCall

ParseIdle ==
    /\ ops_str = <<>>
    /\ parsed = NoCall

\* A path with no file, and a file that is no image.
NoFile == [exists |-> FALSE]

Corrupt == [corrupt |-> TRUE]

ImagePath == "logo.png"

ProcessedPath == "logo_processed.png"

\* --max-images not given.
NoMax == [given |-> FALSE]

BatchIdle ==
    /\ b_cmd = None
    /\ b_found = <<>>
    /\ b_max = NoMax
    /\ b_files = <<>>
    /\ b_log = <<>>

FileIdle ==
    /\ replace = FALSE
    /\ skip_same = FALSE
    /\ disk = [p \in {ImagePath, ProcessedPath} |-> NoFile]
    /\ original_img = NoCall
    /\ current_img = NoCall
    /\ modified = FALSE
    /\ op_index = 0
    /\ status = None

\* A file name: its stem, the timestamp after the stem (0: none) and its
\* suffix.
Name(stem, stamp) == [stem |-> stem, stamp |-> stamp, suffix |-> ".png"]

\* The company names the model identifies.
Companies == {"acme"}

\* The names in the directory: logos not yet named, and a company's name
\* with and without a timestamp.
Names ==
    {Name(s, 0) : s \in {"a", "b"}} \cup
    {Name(c, t) : c \in Companies, t \in 0 .. MaxStamp}

\* No file under a name; a file is known by the name it had at the start.
Absent == [exists |-> FALSE]

File(n) == [exists |-> TRUE, first_name |-> n]

RenameIdle ==
    /\ r_fs = [n \in Names |-> Absent]
    /\ r_queue = <<>>
    /\ r_dry = FALSE
    /\ r_now = 0
    /\ r_log = <<>>

CollectIdle ==
    /\ c_cmd = None
    /\ c_args = <<>>
    /\ c_i = 0
    /\ c_files = <<>>

---------------------------------------------------------------------------
(* SpecTrim: trim_image_obj applied to an image, then to its own result. *)

TrimInit ==
    /\ pc = "trim"
    /\ t_img \in TrimImages
    /\ t_margin \in 0 .. MaxMargin
    /\ t_ret = NoCall
    /\ t_again = NoCall
    /\ ExtendIdle /\ ParseIdle /\ FileIdle /\ BatchIdle /\ RenameIdle /\ CollectIdle

Trim ==
    /\ pc = "trim"
    /\ t_ret' = trim_image_obj(t_img, t_margin)
    /\ pc' = IF t_ret'.raised THEN "done" ELSE "again"
    /\ UNCHANGED <<t_img, t_margin, t_again, extend_vars, parse_vars, file_vars>>
    /\ UNCHANGED <<batch_vars, rename_vars, collect_vars>>

TrimAgain ==
    /\ pc = "again"
    /\ t_again' = trim_image_obj(t_ret.img, t_margin)
    /\ pc' = "done"
    /\ UNCHANGED <<t_img, t_margin, t_ret, extend_vars, parse_vars, file_vars>>
    /\ UNCHANGED <<batch_vars, rename_vars, collect_vars>>

TrimNext == Trim \/ TrimAgain

SpecTrim == TrimInit /\ [][TrimNext]_vars

---------------------------------------------------------------------------
(* SpecTrimFile: the two trim_image functions that work on a file, the one *)
(* of the trim command (trim/cli.py) and the one of trim/image_ops.py.     *)

TrimmedPath == "logo_trimmed.png"

\* The image files the trim command is run on: 2x2 and 3x3, RGB and RGBA,
\* with at most two pixels put.
TrimFileImages ==
    UNION { ImagesOf(mode, n, n, TrimPalette(mode), {0, 1, 2})
            : mode \in {"RGB", "RGBA"}, n \in {2, 3} }

\* The --margin option is an int: typer takes negative numbers too.
TrimFileInit ==
    /\ pc \in {"trim_cli", "trim_ops"}
    /\ t_img \in TrimFileImages
    /\ t_margin \in (0 - MaxMargin) .. MaxMargin
    /\ t_ret = NoCall
    /\ t_again = NoCall
    /\ replace \in BOOLEAN
    /\ disk = [p \in {ImagePath, TrimmedPath} |-> IF p = ImagePath THEN t_img ELSE NoFile]
    /\ skip_same = FALSE
    /\ original_img = NoCall
    /\ current_img = NoCall
    /\ modified = FALSE
    /\ op_index = 0
    /\ status = None
    /\ ExtendIdle /\ ParseIdle /\ BatchIdle /\ RenameIdle /\ CollectIdle

\* The file system after a call of a trim_image that returned ret: the crop
\* is saved under the target path; when crop or save raised on a box
\* without pixels the target is left alone or left behind as an empty file.
TrimFileSaved(ret, after) ==
    LET target_path == IF replace THEN ImagePath ELSE TrimmedPath
    IN  IF ret.raised
        THEN IF ret.error = "ValueError"
             THEN after \in {disk, [disk EXCEPT ![target_path] = Corrupt]}
             ELSE after = disk
        ELSE IF ret.saved THEN after = [disk EXCEPT ![target_path] = ret.img]
        ELSE after = disk

\* trim/cli.py: trim_image(image_path, margin, replace) on the file.
TrimCli ==
    /\ pc = "trim_cli"
    /\ t_ret' = trim_cli_trim_image(disk[ImagePath], t_margin)
    /\ TrimFileSaved(t_ret', disk')
    /\ pc' = "cli_done"
    /\ UNCHANGED <<t_img, t_margin, t_again, extend_vars, parse_vars>>
    /\ UNCHANGED <<replace, skip_same, original_img, current_img, modified, op_index, status>>
    /\ UNCHANGED <<batch_vars, rename_vars, collect_vars>>

\* trim/image_ops.py: trim_image(image_path, margin, replace) on the file.
TrimOps ==
    /\ pc = "trim_ops"
    /\ t_ret' = trim_ops_trim_image(disk[ImagePath], t_margin)
    /\ TrimFileSaved(t_ret', disk')
    /\ pc' = "ops_done"
    /\ UNCHANGED <<t_img, t_margin, t_again, extend_vars, parse_vars>>
    /\ UNCHANGED <<replace, skip_same, original_img, current_img, modified, op_index, status>>
    /\ UNCHANGED <<batch_vars, rename_vars, collect_vars>>

TrimFileNext == TrimCli \/ TrimOps

SpecTrimFile == TrimFileInit /\ [][TrimFileNext]_vars

---------------------------------------------------------------------------
(* SpecExtend: extend_image_obj applied to an image. *)

ExtendInit ==
    /\ pc = "extend"
    /\ e_img \in ExtendImages
    /\ e_ret = NoCall
    /\ TrimIdle /\ ParseIdle /\ FileIdle /\ BatchIdle /\ RenameIdle /\ CollectIdle

Extend ==
    /\ pc = "extend"
    /\ e_ret' = extend_image_obj(e_img)
    /\ pc' = "done"
    /\ UNCHANGED <<e_img, trim_vars, parse_vars, file_vars>>
    /\ UNCHANGED <<batch_vars, rename_vars, collect_vars>>

ExtendNext == Extend

SpecExtend == ExtendInit /\ [][ExtendNext]_vars

---------------------------------------------------------------------------
(* src/src/commands/manipulate/cli.py: manipulate on one file.             *)

\* _images_are_identical(img1, img2): same size, same mode, and an empty
\* getbbox of the difference.
_images_are_identical(img1, img2) ==
    IF img1.size # img2.size \/ img1.mode # img2.mode THEN FALSE
    ELSE getbbox(difference(img1, img2)) = NoBox

\* The operations parse_operations returned.
ops == parsed.ops

\* manipulate: ops = parse_operations(ops_str); a ValueError ends the run.
Parse ==
    /\ pc = "parse"
    /\ parsed' = parse_operations(ops_str)
    /\ pc' = IF parsed'.raised THEN "done" ELSE "load"
    /\ UNCHANGED <<ops_str, trim_vars, extend_vars, file_vars>>
    /\ UNCHANGED <<batch_vars, rename_vars, collect_vars>>

\* _process_single_file: load_and_validate_image and Image.open; a file
\* that is no image is skipped.
Load ==
    /\ pc = "load"
    /\ IF disk[ImagePath] = Corrupt
       THEN /\ status' = "skipped"
            /\ pc' = "done"
            /\ UNCHANGED <<original_img, current_img>>
       ELSE /\ original_img' = disk[ImagePath]
            /\ current_img' = disk[ImagePath]
            /\ pc' = "loop"
            /\ UNCHANGED status
    /\ UNCHANGED <<replace, skip_same, disk, modified, op_index>>
    /\ UNCHANGED <<trim_vars, extend_vars, parse_vars>>
    /\ UNCHANGED <<batch_vars, rename_vars, collect_vars>>

\* StepExtend with extend working in place on an image that original_img
\* shares.
StepExtend_in_place ==
    /\ pc = "loop"
    /\ op_index < Len(ops)
    /\ ops[op_index + 1][1] = "e"
    /\ current_img' = extend_image_obj(current_img)
    /\ original_img' = current_img'
    /\ modified' = TRUE
    /\ op_index' = op_index + 1
    /\ UNCHANGED <<pc, replace, skip_same, disk, status>>
    /\ UNCHANGED <<trim_vars, extend_vars, parse_vars>>
    /\ UNCHANGED <<batch_vars, rename_vars, collect_vars>>

\* One turn of the loop over ops, on an 'e'.
StepExtend ==
    /\ pc = "loop"
    /\ op_index < Len(ops)
    /\ ops[op_index + 1][1] = "e"
    /\ current_img' = extend_image_obj(current_img)
    /\ modified' = TRUE
    /\ op_index' = op_index + 1
    /\ UNCHANGED <<pc, replace, skip_same, disk, original_img, status>>
    /\ UNCHANGED <<trim_vars, extend_vars, parse_vars>>
    /\ UNCHANGED <<batch_vars, rename_vars, collect_vars>>

\* StepTrim with the flag assigned instead of accumulated.
StepTrim_assigns ==
    /\ pc = "loop"
    /\ op_index < Len(ops)
    /\ ops[op_index + 1][1] = "t"
    /\ LET ret == trim_image_obj(current_img, ops[op_index + 1][2])
       IN  /\ ~ret.raised
           /\ current_img' = ret.img
           /\ modified' = ret.modified
    /\ op_index' = op_index + 1
    /\ UNCHANGED <<pc, replace, skip_same, disk, original_img, status>>
    /\ UNCHANGED <<trim_vars, extend_vars, parse_vars>>
    /\ UNCHANGED <<batch_vars, rename_vars, collect_vars>>

\* One turn of the loop over ops, on a 't' that returns.
StepTrim ==
    /\ pc = "loop"
    /\ op_index < Len(ops)
    /\ ops[op_index + 1][1] = "t"
    /\ LET ret == trim_image_obj(current_img, ops[op_index + 1][2])
       IN  /\ ~ret.raised
           /\ current_img' = ret.img
           /\ modified' = IF ret.modified THEN TRUE ELSE modified
    /\ op_index' = op_index + 1
    /\ UNCHANGED <<pc, replace, skip_same, disk, original_img, status>>
    /\ UNCHANGED <<trim_vars, extend_vars, parse_vars>>
    /\ UNCHANGED <<batch_vars, rename_vars, collect_vars>>

\* StepTrimRaises with the error caught inside the loop, which goes on.
StepTrimRaises_goes_on ==
    /\ pc = "loop"
    /\ op_index < Len(ops)
    /\ ops[op_index + 1][1] = "t"
    /\ trim_image_obj(current_img, ops[op_index + 1][2]).raised
    /\ op_index' = op_index + 1
    /\ UNCHANGED <<pc, replace, skip_same, disk, original_img, current_img, modified, status>>
    /\ UNCHANGED <<trim_vars, extend_vars, parse_vars>>
    /\ UNCHANGED <<batch_vars, rename_vars, collect_vars>>

\* One turn of the loop over ops, on a 't' that raises: the except clause
\* returns 'skipped'.
StepTrimRaises ==
    /\ pc = "loop"
    /\ op_index < Len(ops)
    /\ ops[op_index + 1][1] = "t"
    /\ trim_image_obj(current_img, ops[op_index + 1][2]).raised
    /\ status' = "skipped"
    /\ pc' = "done"
    /\ UNCHANGED <<replace, skip_same, disk, original_img, current_img, modified, op_index>>
    /\ UNCHANGED <<trim_vars, extend_vars, parse_vars>>
    /\ UNCHANGED <<batch_vars, rename_vars, collect_vars>>

\* Finish with the loaded image saved instead of the chain's result.
Finish_saves_original ==
    /\ pc = "loop"
    /\ op_index = Len(ops)
    /\ modified' = IF modified /\ skip_same /\ _images_are_identical(original_img, current_img)
                   THEN FALSE ELSE modified
    /\ IF ~modified'
       THEN /\ status' = "no_change"
            /\ UNCHANGED disk
       ELSE LET target_path == IF replace THEN ImagePath ELSE ProcessedPath
            IN  /\ disk' = [disk EXCEPT ![target_path] = original_img]
                /\ status' = "processed"
    /\ pc' = "done"
    /\ UNCHANGED <<replace, skip_same, original_img, current_img, op_index>>
    /\ UNCHANGED <<trim_vars, extend_vars, parse_vars>>
    /\ UNCHANGED <<batch_vars, rename_vars, collect_vars>>

\* Finish without the skip-same test.
Finish_no_skip_same ==
    /\ pc = "loop"
    /\ op_index = Len(ops)
    /\ UNCHANGED modified
    /\ IF ~modified'
       THEN /\ status' = "no_change"
            /\ UNCHANGED disk
       ELSE LET target_path == IF replace THEN ImagePath ELSE ProcessedPath
            IN  /\ disk' = [disk EXCEPT ![target_path] = current_img]
                /\ status' = "processed"
    /\ pc' = "done"
    /\ UNCHANGED <<replace, skip_same, original_img, current_img, op_index>>
    /\ UNCHANGED <<trim_vars, extend_vars, parse_vars>>
    /\ UNCHANGED <<batch_vars, rename_vars, collect_vars>>

\* After the loop: the skip-same test, then 'no_change' or the save.
Finish ==
    /\ pc = "loop"
    /\ op_index = Len(ops)
    /\ modified' = IF modified /\ skip_same /\ _images_are_identical(original_img, current_img)
                   THEN FALSE ELSE modified
    /\ IF ~modified'
       THEN /\ status' = "no_change"
            /\ UNCHANGED disk
       ELSE LET target_path == IF replace THEN ImagePath ELSE ProcessedPath
            IN  /\ disk' = [disk EXCEPT ![target_path] = current_img]
                /\ status' = "processed"
    /\ pc' = "done"
    /\ UNCHANGED <<replace, skip_same, original_img, current_img, op_index>>
    /\ UNCHANGED <<trim_vars, extend_vars, parse_vars>>
    /\ UNCHANGED <<batch_vars, rename_vars, collect_vars>>

Init ==
    /\ pc = "parse"
    /\ ops_str \in ChainStrings
    /\ parsed = NoCall
    /\ replace \in BOOLEAN
    /\ skip_same \in BOOLEAN
    /\ disk \in {[p \in {ImagePath, ProcessedPath} |-> IF p = ImagePath THEN f ELSE NoFile]
                   : f \in ChainImages \cup {Corrupt}}
    /\ original_img = NoCall
    /\ current_img = NoCall
    /\ modified = FALSE
    /\ op_index = 0
    /\ status = None
    /\ TrimIdle /\ ExtendIdle /\ BatchIdle /\ RenameIdle /\ CollectIdle

Next == Parse \/ Load \/ StepExtend \/ StepTrim \/ StepTrimRaises \/ Finish

Spec == Init /\ [][Next]_vars

---------------------------------------------------------------------------
(* SpecParse: parse_operations applied to a string. *)

ParseInit ==
    /\ pc = "parse"
    /\ ops_str \in Strings(MaxStrLen) \cup {<<"e", ",", "t", "4", "8">>}
    /\ parsed = NoCall
    /\ TrimIdle /\ ExtendIdle /\ FileIdle /\ BatchIdle /\ RenameIdle /\ CollectIdle

ParseNext == Parse

SpecParse == ParseInit /\ [][ParseNext]_vars

---------------------------------------------------------------------------
(* SpecBatch: the loops of manipulate, extend, trim and rename over the    *)
(* collected files.  A file is known by its kind: "good", "invalid" (no    *)
(* image: validation or Image.open fails) or "failing" (processing        *)
(* raises).                                                                *)

FileKinds == {"good", "invalid", "failing"}

\* The lists of at most n files.
RECURSIVE FileLists(_)
FileLists(n) ==
    IF n = 0 THEN {<<>>}
    ELSE FileLists(n - 1) \cup {Append(l, f) : l \in {m \in FileLists(n - 1) : Len(m) = n - 1},
                                              f \in FileKinds}

BatchInit ==
    /\ pc = "collect"
    /\ b_cmd \in {"manipulate", "extend", "trim", "rename"}
    /\ b_found \in FileLists(MaxFiles)
    /\ b_max \in IF b_cmd = "rename"
                 THEN {NoMax} \cup {[given |-> TRUE, value |-> n] : n \in 0 .. MaxFiles}
                 ELSE {NoMax}
    /\ b_files = <<>>
    /\ b_log = <<>>
    /\ TrimIdle /\ ExtendIdle /\ ParseIdle /\ FileIdle /\ RenameIdle /\ CollectIdle

\* The end of the collection: no files ends the command; rename keeps the
\* first max_images files.
BatchCollect ==
    /\ pc = "collect"
    /\ b_files' = IF b_cmd = "rename" /\ b_max.given
                  THEN IF b_max.value > 0 /\ b_max.value < Len(b_found)
                       THEN SubSeq(b_found, 1, b_max.value) ELSE b_found
                  ELSE b_found
    /\ pc' = IF b_found = <<>> THEN "batch_done" ELSE "batch"
    /\ UNCHANGED <<b_cmd, b_found, b_max, b_log>>
    /\ UNCHANGED <<trim_vars, extend_vars, parse_vars, file_vars>>
    /\ UNCHANGED <<rename_vars, collect_vars>>

\* A turn of a loop appends to the log the file after those attempted, the
\* status its function returned and whether the loop's except clause caught
\* an error.
Attempt(status_, caught) ==
    Append(b_log, [file |-> Len(b_log) + 1, status |-> status_, caught |-> caught])

\* manipulate: _process_single_file returns 'skipped' for a file that fails
\* validation and for one whose processing raises.
BatchManipulate ==
    /\ pc = "batch"
    /\ b_cmd = "manipulate"
    /\ Len(b_log) < Len(b_files)
    /\ \E st \in {"processed", "no_change"} :
          b_log' = IF b_files[Len(b_log) + 1] = "good" THEN Attempt(st, FALSE)
                   ELSE Attempt("skipped", FALSE)
    /\ UNCHANGED <<pc, b_cmd, b_found, b_max, b_files>>
    /\ UNCHANGED <<trim_vars, extend_vars, parse_vars, file_vars>>
    /\ UNCHANGED <<rename_vars, collect_vars>>

\* extend: _process_single_file returns 'extended' or 'skipped'.
BatchExtend ==
    /\ pc = "batch"
    /\ b_cmd = "extend"
    /\ Len(b_log) < Len(b_files)
    /\ b_log' = IF b_files[Len(b_log) + 1] = "good" THEN Attempt("extended", FALSE)
               ELSE Attempt("skipped", FALSE)
    /\ UNCHANGED <<pc, b_cmd, b_found, b_max, b_files>>
    /\ UNCHANGED <<trim_vars, extend_vars, parse_vars, file_vars>>
    /\ UNCHANGED <<rename_vars, collect_vars>>

\* The trim loop without its try: an error ends the loop.
BatchTrim_no_try ==
    /\ b_cmd = "trim"
    /\ Len(b_log) < Len(b_files)
    /\ pc = "batch"
    /\ IF b_files[Len(b_log) + 1] = "good"
       THEN /\ b_log' = Attempt("trimmed", FALSE)
            /\ UNCHANGED pc
       ELSE /\ b_log' = Attempt(None, FALSE)
            /\ pc' = "batch_done"
    /\ UNCHANGED <<b_cmd, b_found, b_max, b_files>>
    /\ UNCHANGED <<trim_vars, extend_vars, parse_vars, file_vars>>
    /\ UNCHANGED <<rename_vars, collect_vars>>

\* trim on a directory: trim_image returns the path or raises; the loop's
\* except clause prints the error.
BatchTrim ==
    /\ pc = "batch"
    /\ b_cmd = "trim"
    /\ Len(b_log) < Len(b_files)
    /\ b_log' = IF b_files[Len(b_log) + 1] = "good" THEN Attempt("trimmed", FALSE)
               ELSE Attempt(None, TRUE)
    /\ UNCHANGED <<pc, b_cmd, b_found, b_max, b_files>>
    /\ UNCHANGED <<trim_vars, extend_vars, parse_vars, file_vars>>
    /\ UNCHANGED <<rename_vars, collect_vars>>

\* rename: _process_single_file returns True or False.
BatchRename ==
    /\ pc = "batch"
    /\ b_cmd = "rename"
    /\ Len(b_log) < Len(b_files)
    /\ b_log' = IF b_files[Len(b_log) + 1] = "good" THEN Attempt("True", FALSE)
               ELSE Attempt("False", FALSE)
    /\ UNCHANGED <<pc, b_cmd, b_found, b_max, b_files>>
    /\ UNCHANGED <<trim_vars, extend_vars, parse_vars, file_vars>>
    /\ UNCHANGED <<rename_vars, collect_vars>>

\* After the last file the loop ends and the counts are printed.
BatchEnd ==
    /\ pc = "batch"
    /\ Len(b_log) = Len(b_files)
    /\ pc' = "batch_done"
    /\ UNCHANGED batch_vars
    /\ UNCHANGED <<trim_vars, extend_vars, parse_vars, file_vars>>
    /\ UNCHANGED <<rename_vars, collect_vars>>

BatchNext ==
    \/ BatchCollect
    \/ BatchManipulate
    \/ BatchExtend
    \/ BatchTrim
    \/ BatchRename
    \/ BatchEnd

SpecBatch == BatchInit /\ [][BatchNext]_vars

---------------------------------------------------------------------------
(* SpecRename: the rename loop over the files of one directory.  The       *)
(* model's answer for a file is "invalid" (validation fails), "raise"      *)
(* (identification raises), "" (no company name) or a company name.        *)

Outcomes == {"invalid", "raise", ""} \cup Companies

\* Path.rename: the file moves and replaces whatever the new name held.
path_rename(fs, src, dst) ==
    IF src = dst THEN fs ELSE [fs EXCEPT ![dst] = fs[src], ![src] = Absent]

determine_new_path(image_path, company_name) ==
    [stem |-> company_name, stamp |-> 0, suffix |-> image_path.suffix]

\* rename_image without its second test: the timestamped name is used even
\* when it exists.
rename_image_one_test(fs, image_path, target_path, now) ==
    LET final_path == IF fs[target_path].exists
                      THEN [target_path EXCEPT !.stamp = now] ELSE target_path
    IN  [raised |-> None, fs |-> path_rename(fs, image_path, final_path),
         final_path |-> final_path]

\* rename_image without any test.
rename_image_no_test(fs, image_path, target_path, now) ==
    [raised |-> None, fs |-> path_rename(fs, image_path, target_path),
     final_path |-> target_path]

\* rename_image at the second `now`: the directory afterwards and the path
\* returned, or the error raised.
rename_image(fs, image_path, target_path, now) ==
    LET new_filename == [target_path EXCEPT !.stamp = now]
        final_path == IF fs[target_path].exists THEN new_filename ELSE target_path
    IN  IF fs[target_path].exists /\ fs[new_filename].exists
        THEN [raised |-> "FileExistsError", fs |-> fs, final_path |-> image_path]
        ELSE [raised |-> None, fs |-> path_rename(fs, image_path, final_path),
              final_path |-> final_path]

\* _process_single_file of the rename command: what it returns, the
\* directory afterwards and the path the file is at.
rename_single_file(fs, image_path, outcome, dry_run, now) ==
    LET same == [ret |-> FALSE, fs |-> fs, final_path |-> image_path, renamed |-> FALSE]
        new_path == determine_new_path(image_path, outcome)
        r == rename_image(fs, image_path, new_path, now)
    IN  IF ~fs[image_path].exists \/ outcome = "invalid" THEN same
        ELSE IF outcome = "raise" \/ outcome = "" THEN same
        ELSE IF image_path = new_path THEN [same EXCEPT !.ret = TRUE]
        ELSE IF dry_run THEN [same EXCEPT !.ret = TRUE]
        ELSE IF r.raised # None THEN same
        ELSE [ret |-> TRUE, fs |-> r.fs, final_path |-> r.final_path, renamed |-> TRUE]

\* The sequences without repetition over a set of names.
RECURSIVE Orders(_)
Orders(S) ==
    {<<>>} \cup UNION {{<<n>> \o o : o \in Orders(S \ {n})} : n \in S}

RenameInit ==
    /\ pc = "rename"
    /\ \E S \in {T \in SUBSET Names : Cardinality(T) <= MaxFiles} :
          /\ r_fs = [n \in Names |-> IF n \in S THEN File(n) ELSE Absent]
          /\ r_queue \in Orders(S)
    /\ r_dry \in BOOLEAN
    /\ r_now = 1
    /\ r_log = <<>>
    /\ TrimIdle /\ ExtendIdle /\ ParseIdle /\ FileIdle /\ BatchIdle /\ CollectIdle

\* A turn of the loop that dry_run makes rename as well.
RenameFile_ignores_dry_run ==
    /\ pc = "rename"
    /\ Len(r_log) < Len(r_queue)
    /\ \E outcome \in Outcomes, now \in r_now .. MaxStamp :
          LET image_path == r_queue[Len(r_log) + 1]
              r == rename_single_file(r_fs, image_path, outcome, FALSE, now)
          IN  /\ r_fs' = r.fs
              /\ r_now' = now
              /\ r_log' = Append(r_log, [path |-> image_path, outcome |-> outcome,
                                         now |-> now, before |-> r_fs, ret |-> r.ret,
                                         final_path |-> r.final_path,
                                         renamed |-> r.renamed])
    /\ UNCHANGED <<pc, r_queue, r_dry>>
    /\ UNCHANGED <<trim_vars, extend_vars, parse_vars, file_vars, batch_vars, collect_vars>>

\* A turn of the loop: _process_single_file on the next file, at a second
\* not before the last one.
RenameFile ==
    /\ pc = "rename"
    /\ Len(r_log) < Len(r_queue)
    /\ \E outcome \in Outcomes, now \in r_now .. MaxStamp :
          LET image_path == r_queue[Len(r_log) + 1]
              r == rename_single_file(r_fs, image_path, outcome, r_dry, now)
          IN  /\ r_fs' = r.fs
              /\ r_now' = now
              /\ r_log' = Append(r_log, [path |-> image_path, outcome |-> outcome,
                                         now |-> now, before |-> r_fs, ret |-> r.ret,
                                         final_path |-> r.final_path,
                                         renamed |-> r.renamed])
    /\ UNCHANGED <<pc, r_queue, r_dry>>
    /\ UNCHANGED <<trim_vars, extend_vars, parse_vars, file_vars, batch_vars, collect_vars>>

\* After the last file the counts are printed.
RenameEnd ==
    /\ pc = "rename"
    /\ Len(r_log) = Len(r_queue)
    /\ pc' = "rename_done"
    /\ UNCHANGED rename_vars
    /\ UNCHANGED <<trim_vars, extend_vars, parse_vars, file_vars, batch_vars, collect_vars>>

RenameNext ==
    \/ RenameFile
    \/ RenameEnd

SpecRename == RenameInit /\ [][RenameNext]_vars

---------------------------------------------------------------------------
(* SpecCollect: the collection of files_to_process by manipulate, extend   *)
(* and rename.  A file is known by its suffix; an entry of a directory is  *)
(* a file or a sub-directory.                                              *)

valid_extensions == {".jpg", ".jpeg", ".png", ".webp", ".bmp", ".gif"}

Suffixes == {".png", ".PNG", ".Jpg", ".txt", ".tiff", ""}

\* p.suffix.lower()
suffix_lower(suffix) ==
    CASE suffix = ".PNG" -> ".png"
      [] suffix = ".Jpg" -> ".jpg"
      [] OTHER -> suffix

DirEntry(is_file, suffix) == [is_file |-> is_file, suffix |-> suffix]

\* The directories of the model, each the list path.iterdir() gives.
Dirs ==
    { <<>>,
      <<DirEntry(TRUE, ".txt"), DirEntry(FALSE, ".png")>>,
      <<DirEntry(TRUE, ".PNG"), DirEntry(TRUE, ".tiff"), DirEntry(TRUE, ".png"),
        DirEntry(FALSE, ".png"), DirEntry(TRUE, ""), DirEntry(TRUE, ".Jpg")>> }

\* A path of the command line: a directory, an existing file or nothing.
ArgPaths ==
    {[kind |-> "dir", entries |-> d] : d \in Dirs} \cup
    {[kind |-> "file", suffix |-> x] : x \in Suffixes} \cup
    {[kind |-> "missing"]}

RECURSIVE ArgLists(_)
ArgLists(n) ==
    IF n = 0 THEN {<<>>}
    ELSE ArgLists(n - 1) \cup {Append(l, a) : l \in {m \in ArgLists(n - 1) : Len(m) = n - 1},
                                             a \in ArgPaths}

\* A collected file: its suffix and whether a directory listing gave it.
Collected(suffix, listed) == [suffix |-> suffix, listed |-> listed]

\* dir_files: the entries that are files with a valid extension.
RECURSIVE dir_files(_)
dir_files(entries) ==
    IF entries = <<>> THEN <<>>
    ELSE LET p == Head(entries)
         IN  (IF p.is_file /\ suffix_lower(p.suffix) \in valid_extensions
              THEN <<Collected(p.suffix, TRUE)>> ELSE <<>>) \o dir_files(Tail(entries))

\* One turn of `for path in image_paths`: what it adds to files_to_process.
collect_path(path) ==
    IF path.kind = "dir" THEN dir_files(path.entries)
    ELSE IF path.kind = "file" THEN <<Collected(path.suffix, FALSE)>>
    ELSE <<>>

CollectInit ==
    /\ pc = "collect_paths"
    /\ c_cmd \in {"manipulate", "extend", "rename"}
    /\ c_args \in ArgLists(MaxArgs)
    /\ c_i = 0
    /\ c_files = <<>>
    /\ TrimIdle /\ ExtendIdle /\ ParseIdle /\ FileIdle /\ BatchIdle /\ RenameIdle

CollectManipulate ==
    /\ pc = "collect_paths"
    /\ c_cmd = "manipulate"
    /\ c_i < Len(c_args)
    /\ c_files' = c_files \o collect_path(c_args[c_i + 1])
    /\ c_i' = c_i + 1
    /\ UNCHANGED <<pc, c_cmd, c_args>>
    /\ UNCHANGED <<trim_vars, extend_vars, parse_vars, file_vars, batch_vars, rename_vars>>

CollectExtend ==
    /\ pc = "collect_paths"
    /\ c_cmd = "extend"
    /\ c_i < Len(c_args)
    /\ c_files' = c_files \o collect_path(c_args[c_i + 1])
    /\ c_i' = c_i + 1
    /\ UNCHANGED <<pc, c_cmd, c_args>>
    /\ UNCHANGED <<trim_vars, extend_vars, parse_vars, file_vars, batch_vars, rename_vars>>

CollectRename ==
    /\ pc = "collect_paths"
    /\ c_cmd = "rename"
    /\ c_i < Len(c_args)
    /\ c_files' = c_files \o collect_path(c_args[c_i + 1])
    /\ c_i' = c_i + 1
    /\ UNCHANGED <<pc, c_cmd, c_args>>
    /\ UNCHANGED <<trim_vars, extend_vars, parse_vars, file_vars, batch_vars, rename_vars>>

\* After the last path: an empty list ends the command, any other list is
\* processed file by file.
CollectEnd ==
    /\ pc = "collect_paths"
    /\ c_i = Len(c_args)
    /\ pc' = IF c_files = <<>> THEN "collect_none" ELSE "collect_process"
    /\ UNCHANGED collect_vars
    /\ UNCHANGED <<trim_vars, extend_vars, parse_vars, file_vars, batch_vars, rename_vars>>

CollectNext ==
    \/ CollectManipulate
    \/ CollectExtend
    \/ CollectRename
    \/ CollectEnd

SpecCollect == CollectInit /\ [][CollectNext]_vars

---------------------------------------------------------------------------
(* Claims about trim, checked under SpecTrim. *)

\* The four corner pixels of an image, normalised to RGBA.
CornersOf(img) ==
    LET c == convert(img, "RGBA")
    IN  <<c.px[<<0, 0>>], c.px[<<Width(img) - 1, 0>>],
          c.px[<<0, Height(img) - 1>>], c.px[<<Width(img) - 1, Height(img) - 1>>]>>

\* The colours that occur on at least 3 of the 4 corners.
Consensus(img) ==
    LET cs == CornersOf(img)
    IN  {c \in {cs[i] : i \in 1 .. 4} : Cardinality({i \in 1 .. 4 : cs[i] = c}) >= 3}

\* C1: corner-mode estimation returns the colour found on at least 3 of the
\* 4 corners of the RGBA-normalised image; when no colour is on 3 corners it
\* raises ImageValidationError, and so does trim, which returns no image.
C1_CornerConsensus ==
    pc # "trim" =>
        LET bg == get_corner_background_color(t_img)
        IN  /\ Consensus(t_img) # {} =>
                  /\ ~bg.raised
                  /\ bg.color \in Consensus(t_img)
                  /\ ~t_ret.raised
            /\ Consensus(t_img) = {} =>
                  /\ bg = Raised("ImageValidationError")
                  /\ t_ret = Raised("ImageValidationError")

\* C1's case: a 2/1/1 split of the corners, on which trim has raised.
C1_Witness ==
    /\ pc = "done"
    /\ t_ret.raised
    /\ Cardinality({CornersOf(t_img)[i] : i \in 1 .. 4}) = 3

\* The pixels whose RGBA-normalised colour differs from the colour c.
Differing(img, c) ==
    {p \in DOMAIN img.px : convert_pixel(img.mode, "RGBA", img.px[p]) # c}

\* C2: trim returns the input image itself with modified = false exactly
\* when no pixel differs from the background or the margin-expanded, clamped
\* box is (0, 0, width, height); otherwise modified = true with the crop.
C2_TrimNoOp ==
    (pc # "trim" /\ ~t_ret.raised) =>
        LET bg == get_corner_background_color(t_img).color
            bbox == trim_bbox(convert(t_img, "RGBA"), bg)
            whole == <<0, 0, Width(t_img), Height(t_img)>>
            noop == \/ Differing(t_img, bg) = {}
                    \/ /\ bbox # NoBox
                       /\ expand_box(bbox, t_margin, Width(t_img), Height(t_img)) = whole
        IN  /\ noop <=> ~t_ret.modified
            /\ ~t_ret.modified => t_ret.img = t_img
            /\ t_ret.modified =>
                  /\ t_ret.img # t_img
                  /\ t_ret.img.size # t_img.size

\* C2's case: content that differs from the background, and a margin that
\* takes the box back to the whole image: trim has returned the input.
C2_Witness ==
    /\ pc # "trim"
    /\ ~t_ret.raised
    /\ ~t_ret.modified
    /\ Differing(t_img, get_corner_background_color(t_img).color) # {}

C4_AsStated ==
    (pc = "done" /\ ~t_ret.raised /\ t_ret.modified) =>
        (~t_again.raised /\ ~t_again.modified)

\* Every pixel of the image is fully opaque once normalised to RGBA.
Opaque(img) ==
    \A p \in DOMAIN img.px : convert_pixel(img.mode, "RGBA", img.px[p])[4] = 255

\* C4, amended: for a fully opaque image and a margin m >= 1, whenever trim
\* cropped, trimming the result again with the same margin completes without
\* error and reports modified = false, returning the cropped image itself.
C4_Retrim ==
    (pc = "done" /\ ~t_ret.raised /\ t_ret.modified /\ t_margin >= 1 /\ Opaque(t_img)) =>
        /\ ~t_again.raised
        /\ ~t_again.modified
        /\ t_again.img = t_ret.img

\* C4's case: an opaque image that trim cropped with a margin >= 1 and whose
\* crop was trimmed again.
C4_Witness ==
    /\ pc = "done"
    /\ ~t_ret.raised
    /\ t_ret.modified
    /\ t_margin >= 1
    /\ Opaque(t_img)
    /\ t_again # NoCall

---------------------------------------------------------------------------
(* Claims about extend, checked under SpecExtend. *)

\* The middle third of the canvas extend makes for an image.
Middle(img) ==
    {p \in Grid(3 * Width(img), 3 * Height(img)) :
        /\ Width(img) <= p[1] /\ p[1] < 2 * Width(img)
        /\ Height(img) <= p[2] /\ p[2] < 2 * Height(img)}

\* The pixel of img at p, normalised to RGBA.
Rgba(img, p) == convert_pixel(img.mode, "RGBA", img.px[p])

\* C5: extend returns an image of size (3w, 3h) in which every pixel outside
\* [w, 2w) x [h, 2h) has the edge-mode background colour of the input.
C5_ExtendCanvas ==
    pc = "done" =>
        LET bg == get_edge_background_color(e_img)
        IN  /\ e_ret.size = <<3 * Width(e_img), 3 * Height(e_img)>>
            /\ DOMAIN e_ret.px = Grid(3 * Width(e_img), 3 * Height(e_img))
            /\ \A p \in DOMAIN e_ret.px \ Middle(e_img) : Rgba(e_ret, p) = bg

\* C5's case: an image whose top-left pixel is not the border's most
\* frequent colour, extended.
C5_Witness ==
    /\ pc = "done"
    /\ Rgba(e_img, <<0, 0>>) # get_edge_background_color(e_img)
    /\ Rgba(e_ret, <<0, 0>>) = get_edge_background_color(e_img)

\* C6 as stated: for every input, transparent pixels included, the output
\* pixel at (w+x, h+y) equals the input pixel at (x, y) in every channel.
C6_AsStated ==
    pc = "done" =>
        \A p \in DOMAIN e_img.px :
            Rgba(e_ret, <<Width(e_img) + p[1], Height(e_img) + p[2]>>) = Rgba(e_img, p)

\* C6, amended: the output pixel at (w+x, h+y) equals the input pixel at
\* (x, y) in every channel for every pixel of an input without alpha channel
\* and for every fully opaque pixel of an RGBA input.
C6_ExtendKeepsOpaque ==
    pc = "done" =>
        \A p \in DOMAIN e_img.px :
            Rgba(e_img, p)[4] = 255 =>
                Rgba(e_ret, <<Width(e_img) + p[1], Height(e_img) + p[2]>>) = Rgba(e_img, p)

\* C6's case: an RGBA input that is wider than high, on a background that
\* is not opaque, with an opaque pixel that the output holds in its place.
C6_Witness ==
    /\ pc = "done"
    /\ e_img.mode = "RGBA"
    /\ Width(e_img) > Height(e_img)
    /\ get_edge_background_color(e_img)[4] # 255
    /\ \E p \in DOMAIN e_img.px :
          /\ e_img.px[p][4] = 255
          /\ e_ret.px[<<Width(e_img) + p[1], Height(e_img) + p[2]>>] = e_img.px[p]

---------------------------------------------------------------------------
(* Claims about the operation chain, checked under Spec. *)

\* The image and the flag that the first k operations of oplist, applied in
\* list order to img, yield; or the step that raised.
RECURSIVE ChainAfter(_, _, _)
ChainAfter(img, oplist, k) ==
    IF k = 0 THEN [raised |-> FALSE, img |-> img, modified |-> FALSE]
    ELSE LET before == ChainAfter(img, oplist, k - 1)
         IN  IF before.raised THEN before
             ELSE IF oplist[k][1] = "e"
             THEN [raised |-> FALSE, img |-> extend_image_obj(before.img), modified |-> TRUE]
             ELSE LET ret == trim_image_obj(before.img, oplist[k][2])
                  IN  IF ret.raised THEN [raised |-> TRUE, at |-> k]
                      ELSE [raised |-> FALSE, img |-> ret.img,
                            modified |-> before.modified \/ ret.modified]

\* C7: the executor applies the operations in list order, each to the image
\* the one before returned, and the flag is the OR of the steps' flags: true
\* for an extend, and for a trim only when it cropped.
C7_ChainOrder ==
    pc = "loop" =>
        LET r == ChainAfter(original_img, ops, op_index)
        IN  /\ ~r.raised
            /\ current_img = r.img
            /\ modified = r.modified

\* C7's case: an extend, then a trim that did not crop: the flag stays true.
C7_Witness ==
    /\ pc = "loop"
    /\ op_index = 2
    /\ ops[1][1] = "e"
    /\ ops[2][1] = "t"
    /\ current_img = extend_image_obj(original_img)
    /\ modified

\* C8 as stated: with skip_same a chain whose steps reported a modification
\* ends no_change, nothing written, exactly when the final image has the
\* size, the mode and every pixel of the loaded one; without skip_same the
\* OR of the steps' flags decides.
C8_AsStated ==
    (pc = "done" /\ status \in {"processed", "no_change"}) =>
        LET r == ChainAfter(original_img, ops, Len(ops))
        IN  /\ IF skip_same /\ r.modified
               THEN (status = "no_change") <=> (current_img = original_img)
               ELSE (status = "no_change") <=> ~r.modified
            /\ status = "no_change" =>
                  disk = [p \in {ImagePath, ProcessedPath} |->
                             IF p = ImagePath THEN original_img ELSE NoFile]

\* C9: when a step of the chain raises, no later step runs, no file is
\* written, the source file stays as it was, also with replace, and the
\* status is 'skipped'.
C9_ChainAbort ==
    (pc = "done" /\ disk[ImagePath] # Corrupt /\ ~parsed.raised) =>
        LET r == ChainAfter(original_img, ops, Len(ops))
        IN  /\ (status = "skipped") <=> r.raised
            /\ r.raised =>
                  /\ op_index = r.at - 1
                  /\ current_img = ChainAfter(original_img, ops, op_index).img
                  /\ disk[ImagePath] = original_img
                  /\ disk[ProcessedPath] = NoFile

\* C9's case: with replace, a first step that cropped and a second that
\* raised: skipped, with the cropped image in hand and nothing written.
C9_Witness ==
    /\ pc = "done"
    /\ status = "skipped"
    /\ replace
    /\ op_index = 1
    /\ modified
    /\ disk[ImagePath] = original_img

---------------------------------------------------------------------------
(* Claims about parse_operations, checked under SpecParse. *)

\* The tokens of a string: what stands between its commas, in order.
TokensOf(s) ==
    LET commas == {k \in DOMAIN s : s[k] = ","}
        cuts == commas \cup {0, Len(s) + 1}
        starts == cuts \ {Len(s) + 1}
        nth(n) == CHOOSE c \in starts : Cardinality({d \in starts : d < c}) = n - 1
    IN  [n \in 1 .. Cardinality(starts) |->
            LET from == nth(n)
                to == SetMin({c \in cuts : c > from})
            IN  [k \in 1 .. to - from - 1 |-> s[from + k]]]

\* A token without the blanks around it, in lower case.
CoreOf(tok) ==
    LET inked == {k \in DOMAIN tok : tok[k] # " "}
    IN  IF inked = {} THEN <<>>
        ELSE [k \in 1 .. SetMax(inked) - SetMin(inked) + 1 |->
                LET c == tok[SetMin(inked) + k - 1]
                IN  CASE c = "E" -> "e" [] c = "T" -> "t" [] OTHER -> c]

\* 'e', or 't' followed by digits only.
ValidCore(core) ==
    \/ core = <<"e">>
    \/ /\ core # <<>>
       /\ core[1] = "t"
       /\ \A k \in 2 .. Len(core) : core[k] \in Digits

RECURSIVE Pow10(_)
Pow10(n) == IF n = 0 THEN 1 ELSE 10 * Pow10(n - 1)

RECURSIVE SumTo(_, _)
SumTo(f, n) == IF n = 0 THEN 0 ELSE f[n] + SumTo(f, n - 1)

\* The operation a valid token stands for.
OpOf(core) ==
    IF core = <<"e">> THEN <<"e", None>>
    ELSE IF Len(core) = 1 THEN <<"t", 20>>
    ELSE <<"t", SumTo([k \in 1 .. Len(core) - 1 |->
                         DigitValue(core[k + 1]) * Pow10(Len(core) - 1 - k)],
                     Len(core) - 1)>>

\* The operations of the non-empty tokens, in token order.
ExpectedOps(s) ==
    LET cores == [n \in DOMAIN TokensOf(s) |-> CoreOf(TokensOf(s)[n])]
        kept == {n \in DOMAIN cores : cores[n] # <<>>}
        nth(n) == CHOOSE c \in kept : Cardinality({d \in kept : d < c}) = n - 1
    IN  [n \in 1 .. Cardinality(kept) |-> OpOf(cores[nth(n)])]

\* C10: for a string whose non-empty tokens are 'e' or 't' with optional
\* digits, in any letter case and with blanks around them, parse_operations
\* returns one operation per non-empty token, in token order: ('e', None),
\* ('t', the digits' number), and ('t', 20) for a bare 't'.
C10_ParseValid ==
    pc # "parse" =>
        LET toks == TokensOf(ops_str)
        IN  (\A n \in DOMAIN toks : CoreOf(toks[n]) = <<>> \/ ValidCore(CoreOf(toks[n]))) =>
                parsed = [raised |-> FALSE, ops |-> ExpectedOps(ops_str)]

\* C10's case: an upper-case bare 'T' with a blank before it, an empty
\* token and an 'e': parsed to ('t', 20), ('e', None).
C10_Witness ==
    /\ pc # "parse"
    /\ ops_str = <<" ", "T", ",", ",", "e">> \/ ops_str = <<" ", "T", ",", "e">>
    /\ parsed = [raised |-> FALSE, ops |-> << <<"t", 20>>, <<"e", None>> >>]

\* The first token of a string that is neither empty nor valid, stripped and
\* lower-cased; <<>> when there is none.
FirstInvalid(s) ==
    LET toks == TokensOf(s)
        bad == {n \in DOMAIN toks : CoreOf(toks[n]) # <<>> /\ ~ValidCore(CoreOf(toks[n]))}
    IN  IF bad = {} THEN <<>> ELSE CoreOf(toks[SetMin(bad)])

\* C11 as stated: for a string with a non-empty token that is neither 'e'
\* nor 't' followed by decimal digits, parse_operations raises ValueError
\* and the message holds the offending token, or for a 't' token the text
\* after the 't'.
C11_AsStated ==
    (pc # "parse" /\ FirstInvalid(ops_str) # <<>>) =>
        /\ parsed.raised
        /\ parsed.error = "ValueError"
        /\ parsed.message[2] \in {FirstInvalid(ops_str), Tail(FirstInvalid(ops_str))}

---------------------------------------------------------------------------
(* Further claims about trim_image_obj, checked under SpecTrim. *)

\* C12 as stated: the box trim computes is the smallest rectangle that holds
\* every pixel whose RGBA-normalised colour differs from the background in
\* any channel, and it is empty exactly when no pixel differs.
C12_AsStated ==
    (pc # "trim" /\ ~get_corner_background_color(t_img).raised) =>
        LET bg == get_corner_background_color(t_img).color
        IN  trim_bbox(convert(t_img, "RGBA"), bg) = BoxOf(Differing(t_img, bg))

\* C16: when trim reports modified = true with crop box (L, T, R, B), the
\* result has the input's own colour mode and size (R-L, B-T), and its pixel
\* at (x, y) is the input's own pixel at (L+x, T+y), not the RGBA copy's.
C16_CropsOriginal ==
    (pc # "trim" /\ ~t_ret.raised /\ t_ret.modified) =>
        LET box == expand_box(trim_bbox(convert(t_img, "RGBA"),
                                        get_corner_background_color(t_img).color),
                              t_margin, Width(t_img), Height(t_img))
        IN  /\ t_ret.img.mode = t_img.mode
            /\ t_ret.img.size = <<box[3] - box[1], box[4] - box[2]>>
            /\ DOMAIN t_ret.img.px = Grid(box[3] - box[1], box[4] - box[2])
            /\ \A p \in DOMAIN t_ret.img.px :
                  t_ret.img.px[p] = t_img.px[<<box[1] + p[1], box[2] + p[2]>>]

\* C16's case: an RGB image that trim cropped at an offset: the crop is RGB.
C16_Witness ==
    /\ pc # "trim"
    /\ ~t_ret.raised
    /\ t_ret.modified
    /\ t_img.mode = "RGB"
    /\ t_ret.img.mode = "RGB"
    /\ t_ret.img.px[<<0, 0>>] # t_img.px[<<0, 0>>]

---------------------------------------------------------------------------
(* Further claims about extend_image_obj, checked under SpecExtend. *)

\* The pixels on the four border lines of a width x height image.
Border(width, height) ==
    {p \in Grid(width, height) : p[1] \in {0, width - 1} \/ p[2] \in {0, height - 1}}

\* How often get_edge_background_color samples the pixel at p.
Samples(width, height, p) ==
    Cardinality({i \in DOMAIN edge_coords(width, height) : edge_coords(width, height)[i] = p})

\* The colour c has the highest count among the border pixels of img, each
\* pixel counted once.
BorderMode(img, c) ==
    LET of(d) == Cardinality({p \in Border(Width(img), Height(img)) : Rgba(img, p) = d})
    IN  /\ of(c) > 0
        /\ \A p \in Border(Width(img), Height(img)) : of(Rgba(img, p)) <= of(c)

\* C13 as stated: for every image size every border pixel is counted exactly
\* once, and the colour returned has the highest count among them.
C13_AsStated ==
    pc # "extend" =>
        /\ \A p \in Border(Width(e_img), Height(e_img)) :
              Samples(Width(e_img), Height(e_img), p) = 1
        /\ BorderMode(e_img, get_edge_background_color(e_img))

\* C13: for every image size the colour returned has the highest count among
\* the border pixels, each counted once; only border pixels are sampled;
\* each is sampled once when the image is at least 2 wide and 2 high, and
\* once or twice otherwise.
C13_EdgeMode ==
    pc # "extend" =>
        LET width == Width(e_img)
            height == Height(e_img)
        IN  /\ BorderMode(e_img, get_edge_background_color(e_img))
            /\ \A i \in DOMAIN edge_coords(width, height) :
                  edge_coords(width, height)[i] \in Border(width, height)
            /\ \A p \in Border(width, height) :
                  /\ Samples(width, height, p) \in {1, 2}
                  /\ (width >= 2 /\ height >= 2) => Samples(width, height, p) = 1

\* C13's case: an image 1 wide and 3 high whose middle pixel, sampled twice,
\* differs from its two equal end pixels: the ends' colour is returned.
C13_Witness ==
    /\ pc # "extend"
    /\ e_img.size = <<1, 3>>
    /\ Rgba(e_img, <<0, 0>>) = Rgba(e_img, <<0, 2>>)
    /\ Rgba(e_img, <<0, 1>>) # Rgba(e_img, <<0, 0>>)
    /\ Samples(1, 3, <<0, 1>>) = 2
    /\ get_edge_background_color(e_img) = Rgba(e_img, <<0, 0>>)

\* C17 as stated: for an input with an alpha channel a middle-third output
\* pixel keeps the background fill colour where the source pixel has alpha 0
\* and is the source pixel where it has alpha 255; an input without alpha is
\* pasted as it is.
C17_AsStated ==
    pc # "extend" =>
        LET bg == get_edge_background_color(e_img)
        IN  \A p \in Grid(Width(e_img), Height(e_img)) :
                LET out == Rgba(e_ret, <<Width(e_img) + p[1], Height(e_img) + p[2]>>)
                    src == Rgba(e_img, p)
                IN  IF e_img.mode \in {"RGBA", "LA"}
                    THEN /\ src[4] = 0 => out = bg
                         /\ src[4] = 255 => out = src
                    ELSE out = src

\* C18 as stated: for an input whose mode has no alpha channel the image
\* extend returns has that same mode.
C18_AsStated ==
    (pc # "extend" /\ e_img.mode \in {"L", "RGB"}) => e_ret.mode = e_img.mode

\* C18: extend returns an RGB image for an RGB input and an RGBA image for
\* an input of any other mode, with or without an alpha channel.
C18_ExtendMode ==
    pc # "extend" => e_ret.mode = (IF e_img.mode = "RGB" THEN "RGB" ELSE "RGBA")

\* C18's cases: an L input has come back as RGBA, opaque.
C18_Witness ==
    /\ pc # "extend"
    /\ e_img.mode = "L"
    /\ e_ret.mode = "RGBA"
    /\ \A p \in DOMAIN e_ret.px : e_ret.px[p][4] = 255

---------------------------------------------------------------------------
(* Claims about the trim_image functions, checked under SpecTrimFile. *)

\* C14 as stated: each trim path raises ImageValidationError and writes
\* nothing when fewer than 3 of the 4 corners of the image share a colour.
C14_AsStated ==
    (pc \in {"cli_done", "ops_done"} /\ Consensus(t_img) = {}) =>
        /\ t_ret.raised
        /\ t_ret.error = "ImageValidationError"
        /\ disk = [p \in {ImagePath, TrimmedPath} |-> IF p = ImagePath THEN t_img ELSE NoFile]

\* C15 as stated: the margin that reaches trim is a non-negative integer
\* and the box trim crops to has 0 <= left < right <= width and
\* 0 <= top < bottom <= height.
C15_AsStated ==
    pc \in {"cli_done", "ops_done"} =>
        /\ t_margin >= 0
        /\ "box" \in DOMAIN t_ret =>
              /\ 0 <= t_ret.box[1] /\ t_ret.box[1] < t_ret.box[3] /\ t_ret.box[3] <= Width(t_img)
              /\ 0 <= t_ret.box[2] /\ t_ret.box[2] < t_ret.box[4] /\ t_ret.box[4] <= Height(t_img)

---------------------------------------------------------------------------
(* Further claims about the operation chain, checked under Spec. *)

\* The size [extend, trim m] gives an image whose content, the pixels that
\* differ from its border's colour, has the box (l, t, r, b).
ExtendTrimSize(img, m) ==
    LET box == BoxOf(Differing(img, get_edge_background_color(img)))
        w == Width(img)
        h == Height(img)
    IN  <<min(3 * w, w + box[3] + m) - max(0, w + box[1] - m),
          min(3 * h, h + box[4] + m) - max(0, h + box[2] - m)>>

\* The file was loaded, the chain is [extend, trim m] and the image has
\* content on its border colour.
ExtendTrimDone ==
    /\ pc = "done"
    /\ ~parsed.raised
    /\ original_img # NoCall
    /\ Len(ops) = 2 /\ ops[1][1] = "e" /\ ops[2][1] = "t"
    /\ Differing(original_img, get_edge_background_color(original_img)) # {}

\* Every pixel of the border has one colour.
UniformBorder(img) ==
    \A p, q \in Border(Width(img), Height(img)) : img.px[p] = img.px[q]

\* C19 as stated: for an opaque image with a uniform border colour the chain
\* [extend, trim m] ends 'processed' with a saved image of width
\* min(3w, w+r+m) - max(0, w+l-m) and height min(3h, h+b+m) - max(0, h+t-m).
C19_AsStated ==
    (ExtendTrimDone /\ UniformBorder(original_img)) =>
        /\ status = "processed"
        /\ disk[IF replace THEN ImagePath ELSE ProcessedPath].size
              = ExtendTrimSize(original_img, ops[2][2])

\* C19: for an opaque image with content the chain [extend, trim m] yields an
\* image of that width and height; it is saved with status 'processed' when
\* skip_same is unset or the size differs from the source's, and otherwise
\* exactly when _images_are_identical finds a difference.
C19_ExtendTrim ==
    ExtendTrimDone =>
        LET size == ExtendTrimSize(original_img, ops[2][2])
            same == skip_same /\ _images_are_identical(original_img, current_img)
        IN  /\ current_img.size = size
            /\ status = (IF same THEN "no_change" ELSE "processed")
            /\ (~skip_same \/ size # original_img.size) => status = "processed"
            /\ status = "processed" =>
                  disk[IF replace THEN ImagePath ELSE ProcessedPath].size = size
            /\ status = "no_change" =>
                  /\ disk[ImagePath] = original_img
                  /\ disk[ProcessedPath] = NoFile

\* C19's case: a 3x3 image with a uniform border and one pixel of content,
\* under 'e,t0': a 1x1 image has been saved.
C19_Witness ==
    /\ ExtendTrimDone
    /\ UniformBorder(original_img)
    /\ original_img.size = <<3, 3>>
    /\ ops[2][2] = 0
    /\ skip_same
    /\ status = "processed"
    /\ disk[ProcessedPath] # NoFile
    /\ disk[ProcessedPath].size = <<1, 1>>

---------------------------------------------------------------------------
(* Claims about the batch loops, checked under SpecBatch. *)

\* C20: in the loops of manipulate, extend, trim and rename the files are
\* attempted in collection order, each once; a file that fails validation or
\* processing is recorded as skipped, False or a caught error, and the loop
\* ends only after the last file.
C20_BatchContinues ==
    /\ Len(b_log) <= Len(b_files)
    /\ \A k \in DOMAIN b_log :
          /\ b_log[k].file = k
          /\ b_files[k] # "good" =>
                \/ b_log[k].caught
                \/ b_log[k].status \in {"skipped", "False"}
          /\ b_files[k] = "good" =>
                /\ ~b_log[k].caught
                /\ b_log[k].status \in {"processed", "no_change", "extended", "trimmed", "True"}
    /\ pc = "batch_done" => Len(b_log) = Len(b_files)

\* C20's case: the first of three files fails and the third has been
\* attempted.
C20_Witness ==
    /\ pc = "batch_done"
    /\ Len(b_files) = 3
    /\ b_files[1] = "failing"
    /\ b_files[3] = "good"
    /\ Len(b_log) = 3
    /\ b_log[3].file = 3

---------------------------------------------------------------------------
(* Further claims about parse_operations in manipulate, under SpecParse. *)

\* C21 as stated: when the operation string holds a malformed token,
\* manipulate stops after parse_operations: it does not go on to collect
\* and load files, and no file or image variable has changed.
C21_AsStated ==
    (pc # "parse" /\ FirstInvalid(ops_str) # <<>>) =>
        /\ pc = "done"
        /\ FileIdle

---------------------------------------------------------------------------
(* Claims about the rename workflow, checked under SpecRename. *)

\* The directory after the k-th file of the loop.
AfterFile(k) == IF k = Len(r_log) THEN r_fs ELSE r_log[k + 1].before

\* The directory `before` with the file of src moved to the free name dst.
Moved(before, src, dst) ==
    [n \in Names |-> IF n = src THEN Absent
                     ELSE IF n = dst THEN before[src] ELSE before[n]]

\* The entries of the log where rename_image was called: the file was
\* identified, is not yet named after the company, and this is no dry run.
RenameCalls ==
    {k \in 1 .. Len(r_log) :
        /\ r_log[k].outcome \in Companies
        /\ r_log[k].before[r_log[k].path].exists
        /\ r_log[k].path # Name(r_log[k].outcome, 0)
        /\ ~r_dry}

\* C22: rename_image moves the source to the target when the target does
\* not exist; when it exists, to the target's stem with the timestamp if
\* that name is free; when that name exists too it raises FileExistsError
\* (the caller returns False) and the source and both existing files stay
\* as they were.
C22 ==
    \A k \in RenameCalls :
        LET e == r_log[k]
            target == Name(e.outcome, 0)
            stamped == Name(e.outcome, e.now)
        IN  /\ ~e.before[target].exists =>
                  /\ AfterFile(k) = Moved(e.before, e.path, target)
                  /\ e.ret
            /\ (e.before[target].exists /\ ~e.before[stamped].exists) =>
                  /\ AfterFile(k) = Moved(e.before, e.path, stamped)
                  /\ AfterFile(k)[target] = e.before[target]
                  /\ e.ret
            /\ (e.before[target].exists /\ e.before[stamped].exists) =>
                  /\ AfterFile(k) = e.before
                  /\ ~e.ret

\* A run where one file took the timestamped name and the next one found
\* both names taken.
C22_Witness ==
    \E k \in RenameCalls : \E j \in RenameCalls :
        /\ j < k
        /\ r_log[j].before[Name(r_log[j].outcome, 0)].exists
        /\ r_log[j].renamed
        /\ r_log[k].before[Name(r_log[k].outcome, 0)].exists
        /\ r_log[k].before[Name(r_log[k].outcome, r_log[k].now)].exists
        /\ ~r_log[k].ret

---------------------------------------------------------------------------
(* Claims about the collection of files, checked under SpecCollect. *)

\* C23 as stated: every file a command processes has an extension in
\* valid_extensions, compared case-insensitively, whether a directory
\* listing gave it or the command line named it.
C23_AsStated ==
    pc = "collect_process" =>
        \A k \in 1 .. Len(c_files) : suffix_lower(c_files[k].suffix) \in valid_extensions

---------------------------------------------------------------------------
(* Further claims about the trim_image functions, under SpecTrimFile. *)

\* C24 as stated: a transform writes at most one file, the source path in
\* replace mode and '<stem>_trimmed<ext>' otherwise; without replace the
\* source file is never written; and when the result is not modified (the
\* crop is the whole image) no file is written in either mode.
C24_AsStated ==
    pc \in {"cli_done", "ops_done"} =>
        /\ replace => disk[TrimmedPath] = NoFile
        /\ ~replace => disk[ImagePath] = t_img
        /\ (~t_ret.raised /\ t_ret.saved) => t_ret.img # t_img

---------------------------------------------------------------------------
(* Further claims about the rename workflow, checked under SpecRename. *)

\* The entries of the log whose file already carries the identified name.
AlreadyNamed ==
    {k \in 1 .. Len(r_log) :
        /\ r_log[k].outcome \in Companies
        /\ r_log[k].before[r_log[k].path].exists
        /\ r_log[k].path = Name(r_log[k].outcome, 0)}

Existing(fs) == {n \in Names : fs[n].exists}

\* C30: after every turn of the rename loop the number of files is what it
\* was, every other file that existed before the turn is still where it
\* was, and the processed file is at its old path or at a path that did not
\* exist before the turn.
C30 ==
    \A k \in 1 .. Len(r_log) :
        LET e == r_log[k]
        IN  /\ Cardinality(Existing(AfterFile(k))) = Cardinality(Existing(e.before))
            /\ \A n \in Existing(e.before) \ {e.path} : AfterFile(k)[n] = e.before[n]
            /\ AfterFile(k)[e.final_path] = e.before[e.path]
            /\ e.final_path = e.path \/ ~e.before[e.final_path].exists

\* A finished batch where two files were identified as the same company and
\* the first was renamed although its target was a file still waiting.
C30_Witness ==
    /\ pc = "rename_done"
    /\ \E j \in 1 .. Len(r_log) : \E k \in 1 .. Len(r_log) :
          /\ j < k
          /\ r_log[j].outcome \in Companies
          /\ r_log[k].outcome = r_log[j].outcome
          /\ r_log[j].renamed
          /\ r_queue[k] = Name(r_log[j].outcome, 0)
          /\ r_log[j].final_path # r_queue[k]

---------------------------------------------------------------------------
(* Claims about the tie-break of the edge colour, checked under SpecExtend. *)

\* The colours tied for the highest count among the samples.
Tied(samples) ==
    {c \in {samples[i] : i \in DOMAIN samples} :
        \A i \in DOMAIN samples : CountOf(samples, samples[i]) <= CountOf(samples, c)}

---------------------------------------------------------------------------
(* Claims about the images the chain holds, checked under Spec. *)

\* C27: no step changes the image it is given, so during the loop and after
\* it the image kept as the chain's starting point is the loaded file, and
\* 'no_change' after a step that modified means that skip_same is set and
\* the result is identical to the loaded file.
C27 ==
    /\ pc = "loop" => original_img = disk[ImagePath]
    /\ (pc = "done" /\ status = "no_change") =>
          /\ original_img = disk[ImagePath]
          /\ ChainAfter(disk[ImagePath], ops, Len(ops)).modified =>
                /\ skip_same
                /\ _images_are_identical(disk[ImagePath], current_img)
    /\ (pc = "done" /\ status = "processed" /\ ~replace) =>
          /\ original_img = disk[ImagePath]
          /\ skip_same => ~_images_are_identical(disk[ImagePath], current_img)

\* A chain whose steps modified the image and whose result was found
\* identical to the loaded file.
C27_Witness ==
    /\ pc = "done"
    /\ status = "no_change"
    /\ Len(ops) = 2
    /\ ChainAfter(disk[ImagePath], ops, Len(ops)).modified
    /\ original_img = disk[ImagePath]

---------------------------------------------------------------------------
(* Claims about a trim after an extend, checked under SpecExtend. *)

\* C28: the four corners of the image extend returns carry the fill colour,
\* so the corner consensus of a trim that follows finds it and the trim does
\* not raise ImageValidationError, whatever the margin.
C28 ==
    pc # "extend" =>
        /\ \A i \in 1 .. 4 : CornersOf(e_ret)[i] = get_edge_background_color(e_img)
        /\ ~get_corner_background_color(e_ret).raised
        /\ get_corner_background_color(e_ret).color = get_edge_background_color(e_img)
        /\ \A m \in 0 .. MaxMargin : ~trim_image_obj(e_ret, m).raised

\* An image whose own corners show no consensus, extended.
C28_Witness ==
    /\ pc # "extend"
    /\ get_corner_background_color(e_img).raised
    /\ ~get_corner_background_color(e_ret).raised

\* The chain is [extend, trim m] with m >= 1 on an RGB image whose border
\* has one colour and whose content box lies m pixels from each side.
RoundTrip ==
    /\ pc = "done"
    /\ ~parsed.raised
    /\ original_img # NoCall
    /\ Len(ops) = 2 /\ ops[1][1] = "e" /\ ops[2][1] = "t" /\ ops[2][2] >= 1
    /\ original_img.mode = "RGB"
    /\ UniformBorder(original_img)
    /\ BoxOf(Differing(original_img, Rgba(original_img, <<0, 0>>))) =
          <<ops[2][2], ops[2][2],
            Width(original_img) - ops[2][2], Height(original_img) - ops[2][2]>>

\* C29: on such an image trim(extend(img), m) has the size, mode and pixels
\* of img although both steps reported a modification, and with skip_same
\* the chain 'e,t<m>' ends 'no_change' with nothing written.
C29 ==
    RoundTrip =>
        LET extended == extend_image_obj(original_img)
            ret == trim_image_obj(extended, ops[2][2])
        IN  /\ extended # original_img
            /\ ~ret.raised
            /\ ret.modified
            /\ ret.img = original_img
            /\ current_img = original_img
            /\ skip_same =>
                  /\ status = "no_change"
                  /\ disk = [p \in {ImagePath, ProcessedPath} |->
                                IF p = ImagePath THEN original_img ELSE NoFile]

\* The round trip ran with skip_same set.
C29_Witness ==
    /\ RoundTrip
    /\ skip_same
    /\ status = "no_change"

====
